---- MODULE Spec2Model ----
(***************************************************************************)
(* Bird 4480A wattmeter scripts:                                           *)
(*   bird_4480_wattmeter_datalogging.py  - the interactive monitor (Tk)    *)
(*   ex01_bird4480a_log_data_to_csv.py   - the batch logger                *)
(*                                                                         *)
(* Python floats are modelled in fixed point: a float x is the integer     *)
(* x * Scale (Scale = 10^4), times are in milliseconds (SYST:TIM?) or in   *)
(* 10^-4 s (time.time()).  A Python value is a record [type, lit, num].    *)
(***************************************************************************)
EXTENDS Integers, Sequences, FiniteSets, TLC

\* ------------------------------------------------------------------------
\* Python values
\* ------------------------------------------------------------------------
Scale == 100 * 100

PyFloat(x)  == [type |-> "float", lit |-> "", num |-> x]
PyInt(n)    == [type |-> "int", lit |-> "", num |-> n]
\* the text produced by f"{x:.2f}": num is the value in hundredths
PyStr2f(h)  == [type |-> "str", lit |-> "%.2f", num |-> h]
\* the text produced by f"{x:0.3f}": num is the value in thousandths
PyStr3f(t)  == [type |-> "str", lit |-> "%.3f", num |-> t]
PyStrLit(s) == [type |-> "str", lit |-> s, num |-> 0]
PyFloatLit(s) == [type |-> "float", lit |-> s, num |-> 0]
PyNone      == [type |-> "NoneType", lit |-> "None", num |-> 0]

\* float(v): [ok, num].  A float or an int converts, None and a text that is
\* not a number raise (TypeError, ValueError).
ToFloat(v) ==
    CASE v.type = "float" /\ v.lit = "" -> [ok |-> TRUE, num |-> v.num]
      [] v.type = "int"                 -> [ok |-> TRUE, num |-> v.num * Scale]
      [] v.type = "str" /\ v.lit = "%.2f" -> [ok |-> TRUE, num |-> v.num * 100]
      [] OTHER                          -> [ok |-> FALSE, num |-> 0]

\* round(x, 2) of a float in units of 10^-4
Round2(x) == ((x + 50) \div 100) * 100

\* ------------------------------------------------------------------------
\* The instrument: what my4480.query(...) gives back.  A reply is a text
\* holding an integer ("int"), a decimal number ("dec", val in units of
\* 10^-4) or something that is no number ("junk"); "ioerror" is a query that
\* raises (timeout, device unplugged).
\* ------------------------------------------------------------------------
IntText(n) == [kind |-> "int", val |-> n]
DecText(x) == [kind |-> "dec", val |-> x]
NoReply    == [kind |-> "none", val |-> 0]

\* int(text): only a text of digits converts
IntOf(r) == [ok |-> r.kind = "int", num |-> r.val]
\* float(text.strip())
FloatOf(r) ==
    CASE r.kind = "int" -> [ok |-> TRUE, num |-> r.val * Scale]
      [] r.kind = "dec" -> [ok |-> TRUE, num |-> r.val]
      [] OTHER          -> [ok |-> FALSE, num |-> 0]

\* The queries of one tick of the monitor, in program order; the batch logger
\* issues the queries 2..5.
QueryName == <<"SYST:TIM?", "FETC:FORW?", "FETC:REFL?", "FETC:VSWR?",
               "FETC:TEMP?", "SYST:TIM?", "MEAS:BAND?">>
MonitorQueries == <<1, 2, 3, 4, 5, 6, 7>>
BatchQueries   == <<2, 3, 4, 5>>

\* What the instrument may measure during one tick.
Scenarios ==
    { <<IntText(3725000), DecText(500049), DecText(4996), DecText(12218),
        DecText(255000), IntText(3725120), IntText(1)>>,
      <<IntText(59999), DecText(0), IntText(0), DecText(10000),
        IntText(25), IntText(60250), IntText(0)>>,
      <<IntText(86400000), DecText(1000000), DecText(250000), DecText(30000),
        DecText(-51234), IntText(86400300), IntText(2)>> }

FaultKinds == {"junk", "ioerror"}
NoFault == [at |-> 0, kind |-> "none"]
Faults(queries) ==
    {NoFault} \cup
    { [at |-> queries[n], kind |-> f] : n \in DOMAIN queries, f \in FaultKinds }

\* the replies of one tick: the scenario's, with the fault put in
Replies(sc, fault) ==
    [k \in DOMAIN sc |-> IF fault.at = k THEN [kind |-> fault.kind, val |-> 0]
                         ELSE sc[k]]

\* ------------------------------------------------------------------------
\* The floats the helpers are applied to on their own
\* ------------------------------------------------------------------------
FnStep == 25 * 100
MaxFnK == 14
FnFloats == {-25000, 0, 1, 9, 10, 10001, 10100} \cup {FnStep * k : k \in 1..MaxFnK}
FnInputs ==
    {PyFloat(x) : x \in FnFloats} \cup
    {PyInt(0), PyInt(1), PyInt(2), PyInt(-1), PyStr2f(250), PyStrLit("abc"), PyNone}

\* ------------------------------------------------------------------------
\* math.log10, in 32-bit integer arithmetic.
\* Log10E8At(m) is log10(m) * 10^8 for an integer m >= 1, from the binary
\* logarithm taken bit by bit (square the mantissa, shift when it passes 2).
\* ------------------------------------------------------------------------
Pow2(n) == 2 ^ n

RECURSIVE ILog2(_, _)
ILog2(m, e) == IF m < Pow2(e + 1) THEN e ELSE ILog2(m, e + 1)

\* x * x / 2^28 for a mantissa x in [2^28, 2^29)
SquareFix(x) ==
    LET xh == x \div Pow2(14)
        xl == x % Pow2(14)
    IN  xh * xh + ((2 * xh * xl) \div Pow2(14)) + ((xl * xl) \div Pow2(28))

\* the next k bits of log2 of the mantissa x, appended to the bits f
RECURSIVE Log2Frac(_, _, _)
Log2Frac(x, k, f) ==
    IF k = 0 THEN f
    ELSE LET y == SquareFix(x)
         IN  IF y >= Pow2(29) THEN Log2Frac(y \div 2, k - 1, 2 * f + 1)
             ELSE Log2Frac(y, k - 1, 2 * f)

\* e + f / 2^26 is log2(m); log10(2) * 10^8 is 30102999.566
Log10E8At(m) ==
    LET e  == ILog2(m, 0)
        f  == Log2Frac(m * Pow2(28 - e), 26, 0)
        fh == f \div Pow2(13)
        fl == f % Pow2(13)
        c  == 30103000
        ch == c \div Pow2(13)
        cl == c % Pow2(13)
    IN  e * 30102999 + ((e * 566) \div 1000) + fh * ch
        + ((fh * cl + fl * ch) \div Pow2(13)) + ((fl * cl) \div Pow2(26))

\* The logarithm is computed once for each argument that can occur: the
\* readings x (a power) and x + 1, x - 1 (a VSWR), where positive.
Readings ==
    {Round2(FloatOf(sc[k]).num) : sc \in Scenarios, k \in {2, 3, 4}}
    \cup {ToFloat(v).num : v \in FnInputs}
LogArgs ==
    {m \in Readings \cup {x + Scale : x \in Readings} \cup {x - Scale : x \in Readings} :
        m >= 1}
Log10E8Table == {<<m, Log10E8At(m)>> : m \in LogArgs}
Log10E8(m) == (CHOOSE p \in Log10E8Table : p[1] = m)[2]

\* 100 * 10 * log10(watts * 1000), rounded: watts is w / Scale
DbmHundredths(w) == (Log10E8(w) - 100000000 + 50000) \div 100000

\* 100 * -20 * log10((VSWR - 1) / (VSWR + 1)), rounded: VSWR is v / Scale
ReturnLossHundredths(v) ==
    (2 * (Log10E8(v + Scale) - Log10E8(v - Scale)) + 50000) \div 100000

\* ------------------------------------------------------------------------
\* Unit-conversion helpers
\* ------------------------------------------------------------------------
NA == PyStrLit("N/A")

\* f"{hours:02d}:{minutes:02d}:{seconds:02d}": num holds the digits HHMMSS
ms_to_hhmmss(ms) ==
    LET hours   == ms \div 3600000
        minutes == (ms % 3600000) \div 60000
        seconds == (ms % 60000) \div 1000
    IN  [type |-> "str", lit |-> "HH:MM:SS",
         num |-> hours * 10000 + minutes * 100 + seconds]

\* a variant with the ratio inverted: 10 * log10(1000 / watts)
watts_to_dbm_Inverted(watts) ==
    LET f == ToFloat(watts)
    IN  IF ~f.ok THEN NA
        ELSE IF f.num <= 0 THEN NA
        ELSE PyStr2f(0 - DbmHundredths(f.num))

watts_to_dbm(watts) ==
    LET f == ToFloat(watts)
    IN  IF ~f.ok THEN NA
        ELSE IF f.num <= 0 THEN NA
        ELSE PyStr2f(DbmHundredths(f.num))

vswr_to_return_loss(VSWR) ==
    LET f == ToFloat(VSWR)
    IN  IF ~f.ok THEN NA
        ELSE IF f.num <= Scale THEN PyStrLit("0")
        ELSE PyStr2f(ReturnLossHundredths(f.num))

\* the value the batch script returns on its two error paths
ErrorSentinel == PyFloatLit("9.999e+37")

ex01_vswr_to_return_loss(VSWR) ==
    LET f == ToFloat(VSWR)
    IN  IF ~f.ok THEN ErrorSentinel
        ELSE IF f.num <= Scale THEN ErrorSentinel
        ELSE PyStr2f(ReturnLossHundredths(f.num))

HighBand == PyStrLit("High Band 25 to 1000 MHz")
LowBand  == PyStrLit("Low Band 2 to 30 MHz")

\* Band == 1, Band == 0: Python compares an int or a float with the literal
PyEqualsInt(v, n) ==
    \/ v.type = "int" /\ v.num = n
    \/ v.type = "float" /\ v.lit = "" /\ v.num = n * Scale

\* a variant with the two labels exchanged
band_selection_Swapped(Band) ==
    IF PyEqualsInt(Band, 1) THEN LowBand
    ELSE IF PyEqualsInt(Band, 0) THEN HighBand
    ELSE PyNone

band_selection(Band) ==
    IF PyEqualsInt(Band, 1) THEN HighBand
    ELSE IF PyEqualsInt(Band, 0) THEN LowBand
    ELSE PyNone

\* ------------------------------------------------------------------------
\* The frame of one polling iteration: the globals it reads and writes, its
\* locals, the exception it raised (if any) and the trace of what it did.
\* ------------------------------------------------------------------------
Event(e, w, r) == [ev |-> e, what |-> w, reply |-> r]

GuiVars == {"band_var", "forward_power_var", "reflected_power_var",
            "forward_power_dbm_var", "reflected_power_dbm_var", "vswr_var",
            "return_loss_var", "temp_var", "test_time_var", "iteration_var",
            "system_time_var"}
Locals == {"SystemTime_ms", "system_time_str", "forward_power",
           "reflected_power", "vswr", "temp", "TestTime_ms", "meas_band",
           "band", "forward_power_dbm", "reflected_power_dbm", "return_loss",
           "rl", "etime"}

HeaderRow == [kind |-> "header", cells |-> <<>>]
DataRow(cells) == [kind |-> "data", cells |-> cells]

\* what Tcl stores for a value handed to StringVar.set: its str()
TclValue(v) == IF v.type = "NoneType" THEN PyStrLit("None") ELSE v
\* what the csv module writes for a cell: None is written as ''
CsvCell(v) == IF v.type = "NoneType" THEN PyStrLit("") ELSE v

Raise(fr, exc) ==
    [fr EXCEPT !.raised = exc, !.trace = Append(@, Event("raise", exc, NoReply))]
Did(fr, e, w) == [fr EXCEPT !.trace = Append(@, Event(e, w, NoReply))]
SetLocal(fr, name, v) == [fr EXCEPT !.loc[name] = v]
GuiSet(fr, var, v) ==
    Did([fr EXCEPT !.gui[var] = TclValue(v)], "display", var)

\* name = round(float(my4480.query(q).strip()), 2)
FetchFloat(fr, name, k, reply) ==
    LET asked == [fr EXCEPT !.trace = Append(@, Event("query", QueryName[k], reply))]
        f == FloatOf(reply)
    IN  IF reply.kind = "ioerror" THEN Raise(asked, "VisaIOError")
        ELSE IF ~f.ok THEN Raise(asked, "ValueError")
        ELSE SetLocal(asked, name, PyFloat(Round2(f.num)))

\* int(my4480.query(q)): [fr, ok, num]
FetchInt(fr, k, reply) ==
    LET asked == [fr EXCEPT !.trace = Append(@, Event("query", QueryName[k], reply))]
        n == IntOf(reply)
    IN  IF reply.kind = "ioerror" THEN [fr |-> Raise(asked, "VisaIOError"), num |-> 0]
        ELSE IF ~n.ok THEN [fr |-> Raise(asked, "ValueError"), num |-> 0]
        ELSE [fr |-> asked, num |-> n.num]

\* file.write through the text buffer, and file.flush
WriteRow(fr, row) ==
    [fr EXCEPT !.buf = Append(@, row),
               !.trace = Append(@, Event("csv", "writerow", NoReply))]
Flush(fr) ==
    [fr EXCEPT !.disk = @ \o fr.buf, !.buf = <<>>,
               !.trace = Append(@, Event("flush", "csvfile", NoReply))]

\* the one element of a singleton: { e(x) : x \in {v} } binds x to the value of
\* v, which is then computed once however often e uses it
Only(S) == CHOOSE x \in S : TRUE

\* ------------------------------------------------------------------------
\* update_readings, statement by statement
\* ------------------------------------------------------------------------
UpdateStmt(st, fr, q) ==
    CASE st = "i += 1" -> [fr EXCEPT !.i = @ + 1]
      [] st = "iteration_var.set" -> GuiSet(fr, "iteration_var", PyInt(fr.i))
      [] st = "SystemTime_ms" -> LET r == FetchInt(fr, 1, q[1])
                  IN  IF r.fr.raised # "none" THEN r.fr
                      ELSE SetLocal(r.fr, "SystemTime_ms", PyInt(r.num))
      [] st = "system_time_str" -> LET str == ms_to_hhmmss(fr.loc["SystemTime_ms"].num)
                  IN  GuiSet(SetLocal(Did(fr, "compute", "system_time_str"),
                                      "system_time_str", str),
                             "system_time_var", str)
      [] st = "forward_power" -> FetchFloat(fr, "forward_power", 2, q[2])
      [] st = "reflected_power" -> FetchFloat(fr, "reflected_power", 3, q[3])
      [] st = "vswr" -> FetchFloat(fr, "vswr", 4, q[4])
      [] st = "temp" -> FetchFloat(fr, "temp", 5, q[5])
      [] st = "TestTime_ms" -> LET r == FetchInt(fr, 6, q[6])
                  IN  IF r.fr.raised # "none" THEN r.fr
                      ELSE SetLocal(r.fr, "TestTime_ms",
                                    PyInt(r.num - fr.loc["SystemTime_ms"].num))
      [] st = "meas_band" -> LET r == FetchInt(fr, 7, q[7])
                   IN  IF r.fr.raised # "none" THEN r.fr
                       ELSE SetLocal(r.fr, "meas_band", PyInt(r.num))
      [] st = "band" -> SetLocal(Did(fr, "compute", "band"), "band",
                            band_selection(fr.loc["meas_band"]))
      [] st = "forward_power_dbm" -> SetLocal(Did(fr, "compute", "forward_power_dbm"),
                            "forward_power_dbm", watts_to_dbm(fr.loc["forward_power"]))
      [] st = "reflected_power_dbm" -> SetLocal(Did(fr, "compute", "reflected_power_dbm"),
                            "reflected_power_dbm", watts_to_dbm(fr.loc["reflected_power"]))
      [] st = "return_loss" -> SetLocal(Did(fr, "compute", "return_loss"), "return_loss",
                            vswr_to_return_loss(fr.loc["vswr"]))
      [] st = "labels.set" ->
           GuiSet(GuiSet(GuiSet(GuiSet(GuiSet(GuiSet(GuiSet(GuiSet(GuiSet(fr,
               "band_var", fr.loc["band"]),
               "forward_power_var", fr.loc["forward_power"]),
               "reflected_power_var", fr.loc["reflected_power"]),
               "forward_power_dbm_var", fr.loc["forward_power_dbm"]),
               "reflected_power_dbm_var", fr.loc["reflected_power_dbm"]),
               "vswr_var", fr.loc["vswr"]),
               "return_loss_var", fr.loc["return_loss"]),
               "temp_var", fr.loc["temp"]),
               "test_time_var", fr.loc["TestTime_ms"])
      [] st = "writer.writerow" ->
           WriteRow(fr, DataRow(<<CsvCell(fr.loc["band"]),
               CsvCell(fr.loc["forward_power"]), CsvCell(fr.loc["reflected_power"]),
               CsvCell(fr.loc["forward_power_dbm"]),
               CsvCell(fr.loc["reflected_power_dbm"]), CsvCell(fr.loc["vswr"]),
               CsvCell(fr.loc["return_loss"]), CsvCell(fr.loc["temp"]),
               CsvCell(PyInt(fr.i)), CsvCell(fr.loc["TestTime_ms"]),
               CsvCell(fr.loc["system_time_str"])>>))
      [] st = "csvfile.flush" -> Flush(fr)
      [] st = "root.after" -> Did([fr EXCEPT !.timers = @ + 1], "after", "update_readings")

\* variants of the statement order of update_readings:
\* the row is written before the readings are fetched
UpdateBody_RowBeforeFetch ==
    <<"i += 1", "iteration_var.set", "writer.writerow", "csvfile.flush",
      "SystemTime_ms", "system_time_str", "forward_power", "reflected_power",
      "vswr", "temp", "TestTime_ms", "meas_band", "band", "forward_power_dbm",
      "reflected_power_dbm", "return_loss", "labels.set", "root.after">>
\* the next update is scheduled first
UpdateBody_AfterFirst ==
    <<"root.after", "i += 1", "iteration_var.set", "SystemTime_ms",
      "system_time_str", "forward_power", "reflected_power", "vswr", "temp",
      "TestTime_ms", "meas_band", "band", "forward_power_dbm",
      "reflected_power_dbm", "return_loss", "labels.set", "writer.writerow",
      "csvfile.flush">>
\* the next update is scheduled on entry and again on exit
UpdateBody_AfterTwice ==
    <<"root.after", "i += 1", "iteration_var.set", "SystemTime_ms",
      "system_time_str", "forward_power", "reflected_power", "vswr", "temp",
      "TestTime_ms", "meas_band", "band", "forward_power_dbm",
      "reflected_power_dbm", "return_loss", "labels.set", "writer.writerow",
      "csvfile.flush", "root.after">>
\* the row is written once the powers are known, before VSWR and the rest
UpdateBody_RowEarly ==
    <<"i += 1", "iteration_var.set", "SystemTime_ms", "system_time_str",
      "forward_power", "reflected_power", "forward_power_dbm",
      "reflected_power_dbm", "writer.writerow", "csvfile.flush", "vswr", "temp",
      "TestTime_ms", "meas_band", "band", "return_loss", "labels.set",
      "root.after">>
\* the flush is left out
UpdateBody_NoFlush ==
    <<"i += 1", "iteration_var.set", "SystemTime_ms", "system_time_str",
      "forward_power", "reflected_power", "vswr", "temp", "TestTime_ms",
      "meas_band", "band", "forward_power_dbm", "reflected_power_dbm",
      "return_loss", "labels.set", "writer.writerow", "root.after">>

\* the statements of update_readings, in program order
UpdateBody ==
    <<"i += 1", "iteration_var.set", "SystemTime_ms", "system_time_str",
      "forward_power", "reflected_power", "vswr", "temp", "TestTime_ms",
      "meas_band", "band", "forward_power_dbm", "reflected_power_dbm",
      "return_loss", "labels.set", "writer.writerow", "csvfile.flush",
      "root.after">>

\* run the statements from the n-th on; an exception ends the call
RECURSIVE RunUpdate(_, _, _)
RunUpdate(n, fr, q) ==
    Only({ IF now.raised # "none" \/ n > Len(UpdateBody) THEN now
           ELSE RunUpdate(n + 1, UpdateStmt(UpdateBody[n], now, q), q)
           : now \in {fr} })

update_readings(fr, q) == RunUpdate(1, fr, q)

\* ------------------------------------------------------------------------
\* The body of the batch logger's while loop, statement by statement.
\* inp: the replies q, the time dt the iteration took on the wall clock, and
\* whether the write made the text buffer spill to the file.
\* ------------------------------------------------------------------------
log_duration == 1800 * Scale
PrintInterval == 60 * Scale

\* f"{x:0.3f}" of a float in units of 10^-4: the value in thousandths
Round3(x) == (x + 5) \div 10

LoopStmt(st, fr, inp) ==
    CASE st = "forward_power" -> FetchFloat(fr, "forward_power", 2, inp.q[2])
      [] st = "reflected_power" -> FetchFloat(fr, "reflected_power", 3, inp.q[3])
      [] st = "vswr" -> FetchFloat(fr, "vswr", 4, inp.q[4])
      [] st = "rl" -> SetLocal(Did(fr, "compute", "rl"), "rl",
                           ex01_vswr_to_return_loss(fr.loc["vswr"]))
      [] st = "temp" -> FetchFloat(fr, "temp", 5, inp.q[5])
      [] st = "elapsed_time" -> LET t2 == fr.clock + inp.dt
                  IN  SetLocal([Did(fr, "compute", "elapsed_time")
                                  EXCEPT !.clock = t2, !.elapsed_time = t2 - fr.t1],
                               "etime", PyStr3f(Round3(t2 - fr.t1)))
      [] st = "writer.writerow" -> LET w == WriteRow(fr, DataRow(<<fr.loc["etime"],
                               fr.loc["forward_power"], fr.loc["reflected_power"],
                               fr.loc["vswr"], fr.loc["rl"], fr.loc["temp"]>>))
                  IN  IF inp.spill THEN [w EXCEPT !.disk = @ \o w.buf, !.buf = <<>>]
                      ELSE w
      [] st = "print" -> IF fr.elapsed_time > fr.print_interval_flag
                  THEN Did([fr EXCEPT !.print_interval_flag = @ + PrintInterval],
                           "print", "Elapsed time")
                  ELSE fr

\* the statements of the loop body, in program order
LoopStatements ==
    <<"forward_power", "reflected_power", "vswr", "rl", "temp", "elapsed_time",
      "writer.writerow", "print">>

RECURSIVE RunLoopBody(_, _, _)
RunLoopBody(n, fr, inp) ==
    Only({ IF now.raised # "none" \/ n > Len(LoopStatements) THEN now
           ELSE RunLoopBody(n + 1, LoopStmt(LoopStatements[n], now, inp), inp)
           : now \in {fr} })

\* a variant of the loop condition: <= for <
LoopCondition_Inclusive(e) == e <= log_duration

\* while elapsed_time < log_duration
LoopCondition(e) == e < log_duration

LoopBody(fr, inp) == RunLoopBody(1, fr, inp)

\* ------------------------------------------------------------------------
\* Bounds
\* ------------------------------------------------------------------------
\* polling iterations of the monitor that are explored
MaxTicks == 3
\* what one iteration of the batch loop may take on the wall clock (10^-4 s)
ClockSteps == {6000000, 8999998}

\* ------------------------------------------------------------------------
\* State
\* ------------------------------------------------------------------------
VARIABLES
    script,               \* which script runs: "monitor", "batch" ("helpers": none)
    pc,                   \* "first_call", "mainloop", "loop", "exited"
    exit,                 \* how the process ended: "none", "normal", "exception"
    i,                    \* monitor: the iteration count
    gui,                  \* monitor: the StringVars
    buf,                  \* the csv file: rows in the write buffer
    disk,                 \* the csv file: rows in the file
    fileOpen,
    instOpen,             \* my4480
    rmOpen,               \* rm
    timers,               \* monitor: pending root.after callbacks
    reported,             \* monitor: callback exceptions Tk has reported
    trace,                \* what the latest polling iteration did
    completed,            \* polling iterations that returned normally
    clock,                \* batch: time.time()
    t1,                   \* batch
    elapsed_time,         \* batch
    print_interval_flag,  \* batch
    fn, fnA, fnB, fnRa, fnRb   \* a helper applied to two inputs

progVars == <<script, pc, exit, i, gui, buf, disk, fileOpen, instOpen, rmOpen,
              timers, reported, trace, completed, clock, t1, elapsed_time,
              print_interval_flag>>
fnVars == <<fn, fnA, fnB, fnRa, fnRb>>
vars == <<progVars, fnVars>>

Frame ==
    [i |-> i, gui |-> gui, buf |-> buf, disk |-> disk, timers |-> timers,
     trace |-> <<>>, raised |-> "none", loc |-> [n \in Locals |-> PyNone],
     clock |-> clock, t1 |-> t1, elapsed_time |-> elapsed_time,
     print_interval_flag |-> print_interval_flag]

\* the globals after the iteration, the file left open
Commit(fr) ==
    /\ i' = fr.i
    /\ gui' = fr.gui
    /\ timers' = fr.timers
    /\ trace' = fr.trace
    /\ completed' = IF fr.raised = "none" THEN completed + 1 ELSE completed
    /\ clock' = fr.clock
    /\ elapsed_time' = fr.elapsed_time
    /\ print_interval_flag' = fr.print_interval_flag

\* the file is closed (close(), the with block's exit, interpreter shutdown):
\* what the buffer holds goes to the file
CloseFile(b, d) ==
    /\ disk' = d \o b
    /\ buf' = <<>>
    /\ fileOpen' = FALSE
KeepFile(fr) ==
    /\ disk' = fr.disk
    /\ buf' = fr.buf
    /\ fileOpen' = fileOpen

\* ------------------------------------------------------------------------
\* Initial states: the monitor after its module-level setup (instrument and
\* file open, header written, i = 0), the batch logger on reaching its loop.
\* ------------------------------------------------------------------------
FnIdle ==
    /\ fn = "none"
    /\ fnA = PyNone /\ fnB = PyNone /\ fnRa = PyNone /\ fnRb = PyNone

InitCommon ==
    /\ exit = "none"
    /\ i = 0
    /\ gui = [v \in GuiVars |-> PyStrLit("")]
    /\ buf = <<HeaderRow>>
    /\ disk = <<>>
    /\ fileOpen = TRUE
    /\ instOpen = TRUE
    /\ rmOpen = TRUE
    /\ timers = 0
    /\ reported = 0
    /\ trace = <<>>
    /\ completed = 0
    /\ clock = 0
    /\ t1 = 0
    /\ elapsed_time = 0
    /\ print_interval_flag = PrintInterval

InitMonitor == script = "monitor" /\ pc = "first_call" /\ InitCommon
InitBatch   == script = "batch" /\ pc = "loop" /\ InitCommon

Init == (InitMonitor \/ InitBatch) /\ FnIdle

\* ------------------------------------------------------------------------
\* The monitor
\* ------------------------------------------------------------------------
\* line 243: the first update_readings(), called before the event loop.  An
\* exception is uncaught: the interpreter shuts down.
FirstCall ==
    /\ script = "monitor" /\ pc = "first_call"
    /\ \E fr \in { update_readings(Frame, Replies(sc, fault)) :
                      sc \in Scenarios, fault \in Faults(MonitorQueries) } :
             /\ Commit(fr)
             /\ IF fr.raised = "none"
                THEN /\ pc' = "mainloop"
                     /\ exit' = exit
                     /\ KeepFile(fr)
                ELSE /\ pc' = "exited"
                     /\ exit' = "exception"
                     /\ CloseFile(fr.buf, fr.disk)
    /\ UNCHANGED <<script, instOpen, rmOpen, reported, t1, fnVars>>

\* The event loop runs a due root.after callback.  Tk removes the timer, calls
\* update_readings, and reports an exception of the callback instead of
\* letting it through: the event loop goes on.
TimerFires ==
    /\ script = "monitor" /\ pc = "mainloop"
    /\ timers > 0
    /\ i < MaxTicks
    /\ \E fr \in { update_readings([Frame EXCEPT !.timers = @ - 1],
                                      Replies(sc, fault)) :
                      sc \in Scenarios, fault \in Faults(MonitorQueries) } :
             /\ Commit(fr)
             /\ KeepFile(fr)
             /\ reported' = IF fr.raised = "none" THEN reported ELSE reported + 1
    /\ UNCHANGED <<script, pc, exit, instOpen, rmOpen, t1, fnVars>>

\* WM_DELETE_WINDOW: root.destroy() drops the pending callbacks and ends the
\* event loop, and with it the script.
on_closing ==
    /\ script = "monitor" /\ pc = "mainloop"
    /\ instOpen' = FALSE
    /\ rmOpen' = FALSE
    /\ CloseFile(buf, disk)
    /\ timers' = 0
    /\ pc' = "exited"
    /\ exit' = "normal"
    /\ UNCHANGED <<script, i, gui, reported, trace, completed, clock, t1,
                   elapsed_time, print_interval_flag, fnVars>>

\* ------------------------------------------------------------------------
\* The batch logger
\* ------------------------------------------------------------------------
\* one pass of the while loop, the fault drawn from `faults`.  An exception
\* leaves the with block, which closes the file, and ends the script before
\* my4480.close().
BatchPass(faults) ==
    /\ script = "batch" /\ pc = "loop"
    /\ LoopCondition(elapsed_time)
    /\ \E fr \in { LoopBody(Frame, [q |-> Replies(sc, fault), dt |-> dt,
                                      spill |-> spill]) :
                      sc \in Scenarios, fault \in faults, dt \in ClockSteps,
                      spill \in BOOLEAN } :
             /\ Commit(fr)
             /\ IF fr.raised = "none"
                THEN /\ pc' = pc
                     /\ exit' = exit
                     /\ KeepFile(fr)
                ELSE /\ pc' = "exited"
                     /\ exit' = "exception"
                     /\ CloseFile(fr.buf, fr.disk)
    /\ UNCHANGED <<script, instOpen, rmOpen, reported, t1, fnVars>>

BatchIteration == BatchPass(Faults(BatchQueries))

\* the loop condition fails: the with block ends, then lines 119-120
BatchFinish ==
    /\ script = "batch" /\ pc = "loop"
    /\ ~LoopCondition(elapsed_time)
    /\ CloseFile(buf, disk)
    /\ instOpen' = FALSE
    /\ rmOpen' = FALSE
    /\ pc' = "exited"
    /\ exit' = "normal"
    /\ UNCHANGED <<script, i, gui, timers, reported, trace, completed, clock,
                   t1, elapsed_time, print_interval_flag, fnVars>>

Next == FirstCall \/ TimerFires \/ on_closing \/ BatchIteration \/ BatchFinish

Spec == Init /\ [][Next]_vars

\* ------------------------------------------------------------------------
\* The helpers on their own: two inputs are drawn, then one helper is applied
\* to both.  No script runs: no file, no instrument.
\* ------------------------------------------------------------------------
InitHelpers ==
    /\ script = "helpers" /\ pc = "exited" /\ exit = "none"
    /\ i = 0
    /\ gui = [v \in GuiVars |-> PyStrLit("")]
    /\ buf = <<>> /\ disk = <<>>
    /\ fileOpen = FALSE /\ instOpen = FALSE /\ rmOpen = FALSE
    /\ timers = 0 /\ reported = 0 /\ trace = <<>> /\ completed = 0
    /\ clock = 0 /\ t1 = 0 /\ elapsed_time = 0
    /\ print_interval_flag = PrintInterval

FnInit ==
    /\ InitHelpers
    /\ fn = "none"
    /\ fnA \in FnInputs /\ fnB \in FnInputs
    /\ fnRa = PyNone /\ fnRb = PyNone

Applied(name, ra, rb) ==
    /\ fn = "none"
    /\ fn' = name
    /\ fnRa' = ra /\ fnRb' = rb
    /\ UNCHANGED <<fnA, fnB, progVars>>

ApplyWattsToDbm ==
    Applied("watts_to_dbm", watts_to_dbm(fnA), watts_to_dbm(fnB))
ApplyVswrToReturnLoss ==
    Applied("vswr_to_return_loss", vswr_to_return_loss(fnA), vswr_to_return_loss(fnB))
ApplyEx01VswrToReturnLoss ==
    Applied("ex01_vswr_to_return_loss",
            ex01_vswr_to_return_loss(fnA), ex01_vswr_to_return_loss(fnB))
ApplyBandSelection ==
    Applied("band_selection", band_selection(fnA), band_selection(fnB))

FnNext == ApplyWattsToDbm \/ ApplyVswrToReturnLoss \/ ApplyEx01VswrToReturnLoss
          \/ ApplyBandSelection

FnSpec == FnInit /\ [][FnNext]_vars

\* The batch logger alone.  It is a sequential script: while it has a next
\* statement it executes it.
LiveNext == BatchIteration \/ BatchFinish

LiveInit == InitBatch /\ FnIdle

LiveSpec ==
    /\ LiveInit
    /\ [][LiveNext]_vars
    /\ WF_vars(BatchIteration)
    /\ WF_vars(BatchFinish)

\* ========================================================================
\* Properties
\* ========================================================================
Running == script \in {"monitor", "batch"}
Rows == disk \o buf
DataRowCount(rows) == Cardinality({k \in DOMAIN rows : rows[k].kind = "data"})
EventsOf(e) == {k \in DOMAIN trace : trace[k].ev = e}
Raised == EventsOf("raise") # {}
CommFailed ==
    \E k \in EventsOf("raise") : trace[k].what = "VisaIOError"
JunkReply ==
    \E k \in EventsOf("query") : trace[k].reply.kind = "junk"
IsQuery(e) == e.ev = "query"
\* the names of the queries of the latest iteration, in the order issued
QueriesIssued ==
    LET qs == SelectSeq(trace, IsQuery) IN [k \in DOMAIN qs |-> qs[k].what]
IsPrefix(a, b) == Len(a) <= Len(b) /\ a = SubSeq(b, 1, Len(a))
ProgramQueries ==
    LET ks == IF script = "monitor" THEN MonitorQueries ELSE BatchQueries
    IN  [n \in DOMAIN ks |-> QueryName[ks[n]]]
HeaderFirstOnce(rows) ==
    /\ Len(rows) >= 1
    /\ rows[1].kind = "header"
    /\ \A k \in 2..Len(rows) : rows[k].kind = "data"

\* C1: in both scripts the number of data rows written to the CSV file equals
\* the number of polling iterations that completed: a completed iteration
\* writes exactly one row, an iteration that raises writes none.
C1_RowsEqualCompleted ==
    Running => DataRowCount(Rows) = completed

\* two completed ticks of the monitor, then a third that raised
C1_Witness ==
    /\ script = "monitor" /\ i = 3 /\ completed = 2
    /\ Raised
    /\ DataRowCount(Rows) = 2

\* C2 (as claimed): a reply that is no number does not make the iteration
\* raise; the iteration goes on and still writes its row.
C2_JunkReplyIsSwallowed ==
    (Running /\ JunkReply) => (~Raised /\ EventsOf("csv") # {})

\* C3 (as claimed): once an instrument query has raised, the process has ended.
C3_CommFailureEndsProcess ==
    (Running /\ CommFailed) => pc = "exited"

\* C3 (amended): a query that raises ends the process in the batch logger and
\* in the monitor's first update_readings call; raised in the timer callback it
\* is reported by the event loop, which goes on until the window is closed.  In
\* every case no update is left scheduled, no later iteration runs and no later
\* row is written.
C3_AfterCommFailureState ==
    (Running /\ CommFailed) =>
        /\ timers = 0
        /\ (script = "batch" \/ i = 1) => (pc = "exited" /\ exit = "exception")
        /\ (script = "monitor" /\ i > 1) => (exit # "exception" /\ reported >= 1)
C3_AfterCommFailureStep ==
    (Running /\ CommFailed) =>
        /\ CommFailed'
        /\ i' = i
        /\ completed' = completed
        /\ disk' \o buf' = disk \o buf
C3_NoPollingAfterCommFailure ==
    [] C3_AfterCommFailureState /\ [][C3_AfterCommFailureStep]_vars

\* a timer callback's query raised after a completed tick: still in the loop
C3_Witness ==
    /\ script = "monitor" /\ pc = "mainloop"
    /\ CommFailed
    /\ i > 1 /\ completed >= 1

\* C4: the monitor has at most one update_readings pending; a cycle leaves the
\* next one scheduled exactly when it completed; once the file is closed
\* (on_closing) no cycle runs and no row is written.
C4_CycleStep ==
    (script = "monitor" /\ i' # i) =>
        timers' = (IF completed' = completed + 1 THEN 1 ELSE 0)
C4_ClosedStep ==
    (script = "monitor" /\ ~fileOpen) =>
        (i' = i /\ disk' = disk /\ buf' = buf /\ timers' = 0 /\ trace' = trace)
C4_NoOverlap ==
    /\ [] (script = "monitor" => timers <= 1)
    /\ [][C4_CycleStep]_vars
    /\ [][C4_ClosedStep]_vars

\* the window was closed while an update was scheduled, after two cycles
C4_Witness ==
    /\ script = "monitor" /\ pc = "exited" /\ exit = "normal"
    /\ completed >= 2
    /\ trace # <<>> /\ trace[Len(trace)].ev = "after"
    /\ timers = 0

\* C5 (as claimed): the queries are issued in the order time, forward power,
\* reflected power, VSWR, temperature, band (the batch logger: forward power
\* to temperature), then the derived values are computed, and only then is
\* anything put on the display or in the file.
ClaimedQueries ==
    IF script = "monitor"
    THEN <<"SYST:TIM?", "FETC:FORW?", "FETC:REFL?", "FETC:VSWR?", "FETC:TEMP?",
           "MEAS:BAND?">>
    ELSE <<"FETC:FORW?", "FETC:REFL?", "FETC:VSWR?", "FETC:TEMP?">>
Phase(e) ==
    CASE e.ev = "query" -> 1
      [] e.ev = "compute" -> 2
      [] e.ev = "raise" -> 0
      [] OTHER -> 3
C5_QueryComputeEmit ==
    Running =>
        /\ IsPrefix(QueriesIssued, ClaimedQueries)
        /\ \A j, k \in DOMAIN trace :
             (j < k /\ Phase(trace[k]) # 0) => Phase(trace[j]) <= Phase(trace[k])

\* C5 (amended): the queries of a tick are issued in the program's fixed order
\* (monitor: SYST:TIM?, FETC:FORW?, FETC:REFL?, FETC:VSWR?, FETC:TEMP?,
\* SYST:TIM? again, MEAS:BAND?; batch: FETC:FORW?, FETC:REFL?, FETC:VSWR?,
\* FETC:TEMP?), and the CSV row and the labels of the measured values are
\* emitted only after every query of the tick has been issued and every derived
\* value computed.  (The count and the up-time are displayed earlier, and the
\* batch logger computes the return loss before it asks for the temperature.)
EarlyLabels == {"iteration_var", "system_time_var"}
EmitsReadings(e) ==
    \/ e.ev = "csv"
    \/ e.ev = "display" /\ e.what \notin EarlyLabels
C5_RowAfterQueriesAndDerived ==
    Running =>
        /\ IsPrefix(QueriesIssued, ProgramQueries)
        /\ \A k \in DOMAIN trace :
             EmitsReadings(trace[k]) =>
               /\ Cardinality({j \in 1..k : trace[j].ev = "query"}) = Len(ProgramQueries)
               /\ \A j \in DOMAIN trace :
                    trace[j].ev \in {"query", "compute"} => j < k

\* a completed iteration of the batch logger
C5_Witness ==
    /\ script = "batch" /\ completed >= 1
    /\ ~Raised
    /\ EventsOf("csv") # {}
    /\ Len(QueriesIssued) = 4

\* C6 (as claimed): in both scripts the header is written once, first, and
\* between iterations no data row is left in the write buffer.
C6_FlushPerRow ==
    Running => (HeaderFirstOnce(Rows) /\ DataRowCount(buf) = 0)

\* C6 (amended): in both scripts the header is written once, before any data
\* row.  The monitor flushes each data row before the next iteration; the batch
\* logger never flushes, its rows may stay in the write buffer until the file
\* is closed when the with block is left, and then all of them are in the file.
C6_FlushPerRowMonitorOnly ==
    Running =>
        /\ HeaderFirstOnce(Rows)
        /\ script = "monitor" => DataRowCount(buf) = 0
        /\ ~fileOpen => Len(buf) = 0

\* the monitor between two ticks: header and two rows in the file
C6_Witness ==
    /\ script = "monitor" /\ fileOpen
    /\ completed = 2
    /\ Len(disk) = 3 /\ Len(buf) = 0

C7_SafetyState ==
    /\ exit = "normal" => DataRowCount(Rows) >= 1
    /\ \A k \in 2..(Len(Rows) - 1) : Rows[k].cells[1].num <= log_duration \div 10
C7_IterationStep ==
    (clock' # clock \/ exit' = "exception") => elapsed_time < log_duration
C7_Ended ==
    /\ pc = "exited" /\ exit = "normal"
    /\ ~fileOpen /\ ~instOpen /\ ~rmOpen
NoPositiveNumber(v) == ~ToFloat(v).ok \/ ToFloat(v).num <= 0
C8_WattsToDbm ==
    fn = "watts_to_dbm" =>
        /\ NoPositiveNumber(fnA) => fnRa = NA
        /\ NoPositiveNumber(fnB) => fnRb = NA
        /\ (~NoPositiveNumber(fnA) /\ ~NoPositiveNumber(fnB)
            /\ ToFloat(fnA).num < ToFloat(fnB).num) =>
              /\ fnRa.lit = "%.2f" /\ fnRb.lit = "%.2f"
              /\ fnRa.num <= fnRb.num

\* 0.0009 W and 0.25 W: a negative and a larger positive dBm value
C8_Witness ==
    /\ fn = "watts_to_dbm"
    /\ fnA = PyFloat(9) /\ fnB = PyFloat(FnStep)
    /\ fnRa.num < 0 /\ fnRb.num > 0

\* C9 (as claimed): for VSWR <= 1 the monitor's vswr_to_return_loss returns 0
\* and the batch logger's returns the documented sentinel 9.99e+37; above 1 the
\* return loss does not grow with VSWR; the batch logger's result is a float
\* on every path.
DocumentedSentinel == PyFloatLit("9.99e+37")
AtMostOne(v) == ToFloat(v).ok /\ ToFloat(v).num <= Scale
AboveOne(v) == ToFloat(v).ok /\ ToFloat(v).num > Scale
C9_Decreasing ==
    (AboveOne(fnA) /\ AboveOne(fnB) /\ ToFloat(fnA).num < ToFloat(fnB).num) =>
        (fnRa.lit = fnRb.lit /\ fnRb.num <= fnRa.num)
C9_VswrToReturnLoss ==
    /\ fn = "vswr_to_return_loss" =>
         /\ AtMostOne(fnA) => fnRa = PyStrLit("0")
         /\ AtMostOne(fnB) => fnRb = PyStrLit("0")
         /\ C9_Decreasing
    /\ fn = "ex01_vswr_to_return_loss" =>
         /\ AtMostOne(fnA) => fnRa = DocumentedSentinel
         /\ AtMostOne(fnB) => fnRb = DocumentedSentinel
         /\ C9_Decreasing
         /\ fnRa.type = "float" /\ fnRb.type = "float"

\* C10: band code 1 gives the high-band label, band code 0 the low-band label,
\* and with any other band code the iteration still completes: it sets the
\* band label and writes its row.
BandCodes ==
    {trace[k].reply.val : k \in {j \in EventsOf("query") :
        trace[j].what = "MEAS:BAND?" /\ trace[j].reply.kind = "int"}}
BandLabelShown == \E k \in EventsOf("display") : trace[k].what = "band_var"
C10_BandSelection ==
    script = "monitor" =>
        \A c \in BandCodes :
            /\ ~Raised
            /\ BandLabelShown
            /\ EventsOf("csv") # {}
            /\ EventsOf("after") # {}
            /\ c = 1 => (gui["band_var"] = HighBand
                         /\ Rows[Len(Rows)].cells[1] = HighBand)
            /\ c = 0 => (gui["band_var"] = LowBand
                         /\ Rows[Len(Rows)].cells[1] = LowBand)

\* a tick that read band code 2 and completed
C10_Witness ==
    /\ script = "monitor"
    /\ 2 \in BandCodes
    /\ completed >= 1
    /\ gui["band_var"] = PyStrLit("None")
    /\ DataRowCount(Rows) = completed
====
